---- MODULE Spec2Model ----
(***************************************************************************)
(* Model of datadog_logger/handler.py: a logging handler that turns a      *)
(* LogRecord into an EventMessage or a GaugeMessage and pushes it to one   *)
(* of the datadog backends (statsd, api, ThreadStats).                     *)
(*                                                                         *)
(* Python values are modelled as follows.                                  *)
(*   - a str is the sequence of its one-character strings, so that         *)
(*     iterating it, joining it and concatenating it are what Python does; *)
(*   - a list is an object on the heap (lists are mutable and shared), a   *)
(*     value of kind "list" holds its address;                             *)
(*   - a tuple is an immutable value holding its items;                    *)
(*   - an attribute a record does not have is the value Missing, which is  *)
(*     what a plain attribute access raises AttributeError on and what     *)
(*     getattr(record, name, None) turns into None.                        *)
(***************************************************************************)
EXTENDS Integers, Sequences, FiniteSets, TLC

VARIABLES handler, heap, record, last, calls, handled, escaped

vars == <<handler, heap, record, last, calls, handled, escaped>>

(***************************************************************************)
(* Bounds.                                                                 *)
(***************************************************************************)
\* longest list the model lets patch_record build
MaxListLen == 4
\* failure injection: the backend call of an emit that raises (0: none)
MaxFailAt == 3

(***************************************************************************)
(* Strings.                                                                *)
(***************************************************************************)
S_event == <<"e", "v", "e", "n", "t">>
S_gauge == <<"g", "a", "u", "g", "e">>
S_other == <<"o">>
S_info == <<"i", "n", "f", "o">>
S_warning == <<"w", "a", "r", "n", "i", "n", "g">>
S_error == <<"e", "r", "r", "o", "r">>
S_name == <<"n", "m">>
S_a == <<"a">>
S_b == <<"b">>
S_m1 == <<"m", "1">>
S_m2 == <<"m", "2">>
S_ops == <<"@", "o">>
S_x == <<"x">>
S_metric == <<"q", ".", "d">>
S_template == <<"m", " ", "%", "s">>
S_blank == <<"\n", "\n">>
S_space == <<" ">>

\* sep.join(parts) for a sequence of strings
RECURSIVE Join(_, _)
Join(sep, parts) ==
    IF parts = <<>> THEN <<>>
    ELSE IF Len(parts) = 1 THEN parts[1]
    ELSE parts[1] \o sep \o Join(sep, Tail(parts))

\* str(n) for the numbers of the model
NumStr(n) ==
    CASE n = 0 -> <<"0">> [] n = 1 -> <<"1">> [] n = 2 -> <<"2">>
      [] n = 3 -> <<"3">> [] n = 4 -> <<"4">> [] n = 5 -> <<"5">>
      [] n = 6 -> <<"6">> [] n = 7 -> <<"7">> [] n = 8 -> <<"8">>
      [] n = 9 -> <<"9">>

(***************************************************************************)
(* Values of the attributes tags, mentions and the kind selectors: v holds *)
(* the characters of a str, addr the address of a list, items the contents *)
(* of a list in a snapshot.                                                *)
(***************************************************************************)
Missing == [k |-> "missing", v |-> <<>>, items |-> <<>>, addr |-> 0]
None == [k |-> "none", v |-> <<>>, items |-> <<>>, addr |-> 0]
Str(s) == [k |-> "str", v |-> s, items |-> <<>>, addr |-> 0]
Ref(a) == [k |-> "list", v |-> <<>>, items |-> <<>>, addr |-> a]
ListOf(items) == [k |-> "list", v |-> <<>>, items |-> items, addr |-> 0]

\* heap addresses: the lists given to the handler at construction, and the
\* lists that belong to the record
StaticTagsAddr == 1
StaticMentionsAddr == 2
RecordTagsAddr == 3
RecordMentionsAddr == 4
Addrs == {StaticTagsAddr, StaticMentionsAddr, RecordTagsAddr, RecordMentionsAddr}

\* the value with every list replaced by its present contents
Snapshot(val, hp) == IF val.k = "list" THEN ListOf(hp[val.addr]) ELSE val

\* bool(val)
Truthy(val, hp) ==
    CASE val.k = "str" -> val.v # <<>>
      [] val.k = "list" -> hp[val.addr] # <<>>
      [] OTHER -> FALSE

\* what iterating val yields: the items of a list, the characters of a str
Iter(val, hp) ==
    IF val.k = "list" THEN hp[val.addr] ELSE [i \in 1..Len(val.v) |-> <<val.v[i]>>]

(***************************************************************************)
(* Values of record.args and their elements.                               *)
(***************************************************************************)
Num(n) == [t |-> "num", s |-> <<>>, n |-> n]
StrArg(s) == [t |-> "str", s |-> s, n |-> 0]

ArgsNone == [k |-> "none", items |-> <<>>]
ArgsTuple(items) == [k |-> "tuple", items |-> items]
ArgsList(items) == [k |-> "list", items |-> items]

\* bool(record.args)
ArgsTruthy(a) == a.k # "none" /\ a.items # <<>>

\* str(e) and repr(e) of an element
ArgStr(e) == IF e.t = "str" THEN e.s ELSE NumStr(e.n)
ArgRepr(e) == IF e.t = "str" THEN <<"'">> \o e.s \o <<"'">> ELSE NumStr(e.n)

\* str(list)
ListStr(items) ==
    <<"[">> \o Join(<<",", " ">>, [i \in 1..Len(items) |-> ArgRepr(items[i])]) \o <<"]">>

(***************************************************************************)
(* LOG_LEVEL_ALERT_TYPE_MAPPINGS                                           *)
(***************************************************************************)
DEBUG == 10
INFO == 20
WARNING == 30
ERROR == 40
CRITICAL == 50

LOG_LEVEL_ALERT_TYPE_MAPPINGS_Mut ==
    (DEBUG :> S_info) @@ (INFO :> S_info) @@ (WARNING :> S_warning)
      @@ (ERROR :> S_error) @@ (CRITICAL :> S_warning)

LOG_LEVEL_ALERT_TYPE_MAPPINGS ==
    (DEBUG :> S_info) @@ (INFO :> S_info) @@ (WARNING :> S_warning)
      @@ (ERROR :> S_error) @@ (CRITICAL :> S_error)

(***************************************************************************)
(* Records, messages and handlers.                                         *)
(***************************************************************************)
EventMessage == "EventMessage"
GaugeMessage == "GaugeMessage"
MessageClasses == {EventMessage, GaugeMessage}

AbstractDatadogLoggingHandler == "AbstractDatadogLoggingHandler"
StatsdDatadogLoggingHandler == "StatsdDatadogLoggingHandler"
ApiDatadogLoggingHandler == "ApiDatadogLoggingHandler"
ThreadStatsDatadogLoggingHandler == "ThreadStatsDatadogLoggingHandler"
HandlerClasses ==
    {AbstractDatadogLoggingHandler, StatsdDatadogLoggingHandler,
     ApiDatadogLoggingHandler, ThreadStatsDatadogLoggingHandler}

\* the attribute names a handler can be told to read the kind selector from
Keywords == {"datadog_todo", "kind"}

\* an instance without a formatter attribute
NoFormatter ==
    [set |-> FALSE, tags |-> None, mentions |-> None,
     default_message_class |-> EventMessage, message_class_keyword |-> "datadog_todo"]

BaseDatadogFormatter(default_message_class, message_class_keyword, tags, mentions) ==
    [set |-> TRUE, tags |-> tags, mentions |-> mentions,
     default_message_class |-> default_message_class,
     message_class_keyword |-> message_class_keyword]

\* what the configuration is worth: the contents of the lists, not their addresses
ConfigOf(fmt, hp) ==
    [fmt EXCEPT !.tags = Snapshot(fmt.tags, hp), !.mentions = Snapshot(fmt.mentions, hp)]

\* the keyword arguments a handler can be constructed without
Absent == "absent"
NoKwargs == [default_message_class |-> Absent, message_class_keyword |-> Absent]

\* kwargs.pop(name, default)
Pop(given, default) == IF given = Absent THEN default ELSE given

NoHandler ==
    [cls |-> "none", formatter |-> NoFormatter, stats |-> "none", kwargs |-> NoKwargs,
     constructed |-> NoFormatter]

NoRecord ==
    [exists |-> FALSE, name |-> S_name, levelno |-> 0, msg |-> <<>>, args |-> ArgsNone,
     tags |-> Missing, mentions |-> Missing, datadog_todo |-> Missing, kind |-> Missing,
     title |-> Missing, aggregation_key |-> Missing, source_type_name |-> Missing,
     date_happened |-> Missing, priority |-> Missing, hostname |-> Missing]

\* getattr(record, name, None)
GetAttr(rec, name) == IF rec[name].k = "missing" THEN None ELSE rec[name]

NoMessage ==
    [cls |-> "none", title |-> None, text |-> <<>>, alert_type |-> None,
     aggregation_key |-> None, source_type_name |-> None, date_happened |-> None,
     priority |-> None, hostname |-> None, tags |-> None,
     metric_name |-> <<>>, values |-> <<>>, sample_rate |-> 0]

(***************************************************************************)
(* logging.Formatter.format with the default format "%(message)s": the     *)
(* text is record.getMessage(), str(msg) % args when args is true.  The    *)
(* records of the model carry no exc_info and no stack_info, so nothing is *)
(* appended to it; the attribute record.message that format sets is read   *)
(* by nothing in handler.py and is left out of the record.                 *)
(***************************************************************************)
\* the number of %s conversions of a template
RECURSIVE CountConv(_)
CountConv(chars) ==
    IF Len(chars) < 2 THEN 0
    ELSE IF chars[1] = "%" /\ chars[2] = "s"
         THEN 1 + CountConv(SubSeq(chars, 3, Len(chars)))
         ELSE CountConv(Tail(chars))

\* the template with its conversions replaced by subs, in order
RECURSIVE Subst(_, _)
Subst(chars, subs) ==
    IF chars = <<>> THEN <<>>
    ELSE IF Len(chars) >= 2 /\ chars[1] = "%" /\ chars[2] = "s"
         THEN Head(subs) \o Subst(SubSeq(chars, 3, Len(chars)), Tail(subs))
         ELSE <<chars[1]>> \o Subst(Tail(chars), subs)

\* what the % operator converts: the items of a tuple, any other object whole
Operands(a) ==
    IF a.k = "tuple" THEN [i \in 1..Len(a.items) |-> ArgStr(a.items[i])]
    ELSE <<ListStr(a.items)>>

getMessage(rec) ==
    IF ~ArgsTruthy(rec.args) THEN [exc |-> "none", text |-> rec.msg]
    ELSE IF CountConv(rec.msg) # Len(Operands(rec.args))
         THEN [exc |-> "TypeError", text |-> <<>>]
         ELSE [exc |-> "none", text |-> Subst(rec.msg, Operands(rec.args))]

(***************************************************************************)
(* EventMessage.init and GaugeMessage.init                                 *)
(***************************************************************************)
AlertType(levelno) ==
    IF levelno \in DOMAIN LOG_LEVEL_ALERT_TYPE_MAPPINGS
    THEN Str(LOG_LEVEL_ALERT_TYPE_MAPPINGS[levelno])
    ELSE None

EventMessageInit(rec, hp) ==
    LET rendered == getMessage(rec)
        text == IF rec.mentions.k # "none"
                THEN rendered.text \o S_blank \o Join(S_space, Iter(rec.mentions, hp))
                ELSE rendered.text
    IN  IF rendered.exc # "none" THEN [exc |-> rendered.exc, message |-> NoMessage]
        ELSE IF rec.mentions.k = "missing"
             THEN [exc |-> "AttributeError", message |-> NoMessage]
             ELSE [exc |-> "none",
                   message |->
                      [NoMessage EXCEPT
                          !.cls = EventMessage,
                          !.title = IF rec.title.k = "missing" THEN Str(rec.name)
                                    ELSE rec.title,
                          !.text = text,
                          !.alert_type = AlertType(rec.levelno),
                          !.aggregation_key = GetAttr(rec, "aggregation_key"),
                          !.source_type_name = GetAttr(rec, "source_type_name"),
                          !.date_happened = GetAttr(rec, "date_happened"),
                          !.priority = GetAttr(rec, "priority"),
                          !.tags = GetAttr(rec, "tags"),
                          !.hostname = GetAttr(rec, "hostname")]]

GaugeValues(args) ==
    IF ArgsTruthy(args) /\ args.k = "list" /\ Len(args.items) > 0 THEN args.items
    ELSE <<Num(0)>>

GaugeMessageInit(rec, hp) ==
    [exc |-> "none",
     message |->
        [NoMessage EXCEPT
            !.cls = GaugeMessage,
            !.metric_name = rec.msg,
            !.values = GaugeValues(rec.args),
            !.tags = GetAttr(rec, "tags"),
            !.sample_rate = 1]]

(***************************************************************************)
(* BaseDatadogFormatter                                                    *)
(***************************************************************************)
resolve_message_Mut(fmt, rec) ==
    LET todo == GetAttr(rec, "datadog_todo")
    IN  IF todo.k = "str" /\ todo.v = S_event THEN EventMessage
        ELSE IF todo.k = "str" /\ todo.v = S_gauge THEN GaugeMessage
        ELSE EventMessage

resolve_message(fmt, rec) ==
    LET todo == GetAttr(rec, fmt.message_class_keyword)
    IN  IF todo.k = "str" /\ todo.v = S_event THEN EventMessage
        ELSE IF todo.k = "str" /\ todo.v = S_gauge THEN GaugeMessage
        ELSE fmt.default_message_class

\* one of the two merges of patch_record: static is the formatter's value,
\* cur the record's, own the address a list built for the record gets
Merge(static, cur, hp, own) ==
    IF static.k = "none" THEN [exc |-> "none", val |-> cur, heap |-> hp]
    ELSE IF cur.k = "missing" THEN [exc |-> "AttributeError", val |-> cur, heap |-> hp]
    ELSE IF Truthy(cur, hp) /\ cur.k = "list"
         THEN [exc |-> "none", val |-> cur,
               heap |-> [hp EXCEPT ![cur.addr] = hp[cur.addr] \o hp[static.addr]]]
    ELSE IF Truthy(cur, hp)
         THEN [exc |-> "none", val |-> Ref(own),
               heap |-> [hp EXCEPT ![own] = <<cur.v>> \o hp[static.addr]]]
    ELSE [exc |-> "none", val |-> static, heap |-> hp]

patch_record(fmt, rec, hp) ==
    LET m == Merge(fmt.mentions, rec.mentions, hp, RecordMentionsAddr)
        rec1 == [rec EXCEPT !.mentions = m.val]
        t == Merge(fmt.tags, rec.tags, m.heap, RecordTagsAddr)
    IN  IF m.exc # "none" THEN [exc |-> m.exc, record |-> rec, heap |-> hp]
        ELSE IF t.exc # "none" THEN [exc |-> t.exc, record |-> rec1, heap |-> m.heap]
        ELSE [exc |-> "none", record |-> [rec1 EXCEPT !.tags = t.val], heap |-> t.heap]

\* BaseDatadogFormatter.format
format(fmt, rec, hp) ==
    LET message_class == resolve_message(fmt, rec)
        p == patch_record(fmt, rec, hp)
        built == IF message_class = EventMessage THEN EventMessageInit(p.record, p.heap)
                 ELSE GaugeMessageInit(p.record, p.heap)
    IN  IF p.exc # "none"
        THEN [exc |-> p.exc, record |-> p.record, heap |-> p.heap, message |-> NoMessage,
              resolved |-> message_class, patched |-> FALSE]
        ELSE [exc |-> built.exc, record |-> p.record, heap |-> p.heap,
              message |-> built.message, resolved |-> message_class, patched |-> TRUE]

(***************************************************************************)
(* The backends.  A call to the backend is logged with what it was given;  *)
(* ok tells whether it returned or raised.  failAt is the number of the    *)
(* call of this push that raises (0, or more than the calls made: none).   *)
(***************************************************************************)
NoCall ==
    [fn |-> "none", ok |-> TRUE, data |-> NoMessage, metric |-> <<>>, value |-> Num(0),
     points |-> <<>>, tags |-> None, sample_rate |-> 0]

\* fn(**message.data)
EventCall(fn, message, hp, ok) ==
    [NoCall EXCEPT !.fn = fn, !.ok = ok,
                   !.data = [message EXCEPT !.tags = Snapshot(message.tags, hp)]]

\* fn(message.metric_name, value, message.tags, message.sample_rate)
GaugeCall(fn, message, value, hp, ok) ==
    [NoCall EXCEPT !.fn = fn, !.ok = ok, !.metric = message.metric_name, !.value = value,
                   !.tags = Snapshot(message.tags, hp),
                   !.sample_rate = message.sample_rate]

\* fn(metric=..., points=message.values, tags=..., sample_rate=...)
MetricCall(fn, message, hp, ok) ==
    [NoCall EXCEPT !.fn = fn, !.ok = ok, !.metric = message.metric_name,
                   !.points = message.values, !.tags = Snapshot(message.tags, hp),
                   !.sample_rate = message.sample_rate]

Raised(ok) == IF ok THEN "none" ELSE "DatadogError"

\* for value in message.values: fn(...)
GaugeLoop(fn, message, hp, failAt) ==
    LET n == Len(message.values)
        fails == failAt \in 1..n
        made == IF fails THEN failAt ELSE n
    IN  [exc |-> Raised(~fails),
         calls |-> [i \in 1..made |->
                       GaugeCall(fn, message, message.values[i], hp, i # failAt)]]

UnknownMessage == [exc |-> "TypeError", calls |-> <<>>]

\* AbstractDatadogLoggingHandler.push_message
AbstractPush(message, hp, failAt) == [exc |-> "NotImplementedError", calls |-> <<>>]

\* a loop that goes on with the next value after a call raised
StatsdPushGoesOn(message, hp, failAt) ==
    IF message.cls = EventMessage
    THEN [exc |-> Raised(failAt # 1),
          calls |-> <<EventCall("statsd.event", message, hp, failAt # 1)>>]
    ELSE IF message.cls = GaugeMessage
    THEN [exc |-> Raised(failAt \notin 1..Len(message.values)),
          calls |-> [i \in 1..Len(message.values) |->
                        GaugeCall("statsd.gauge", message, message.values[i], hp,
                                  i # failAt)]]
    ELSE UnknownMessage

\* a push that sends the first value only
StatsdPushFirstOnly(message, hp, failAt) ==
    IF message.cls = EventMessage
    THEN [exc |-> Raised(failAt # 1),
          calls |-> <<EventCall("statsd.event", message, hp, failAt # 1)>>]
    ELSE IF message.cls = GaugeMessage
    THEN GaugeLoop("statsd.gauge", [message EXCEPT !.values = <<Head(message.values)>>],
                   hp, failAt)
    ELSE UnknownMessage

\* StatsdDatadogLoggingHandler.push_message
StatsdPush(message, hp, failAt) ==
    IF message.cls = EventMessage
    THEN [exc |-> Raised(failAt # 1),
          calls |-> <<EventCall("statsd.event", message, hp, failAt # 1)>>]
    ELSE IF message.cls = GaugeMessage
    THEN GaugeLoop("statsd.gauge", message, hp, failAt)
    ELSE UnknownMessage

\* ApiDatadogLoggingHandler.push_message
ApiPush(message, hp, failAt) ==
    IF message.cls = EventMessage
    THEN [exc |-> Raised(failAt # 1),
          calls |-> <<EventCall("api.Event.create", message, hp, failAt # 1)>>]
    ELSE IF message.cls = GaugeMessage
    THEN [exc |-> Raised(failAt # 1),
          calls |-> <<MetricCall("api.Metric.send", message, hp, failAt # 1)>>]
    ELSE UnknownMessage

\* ThreadStatsDatadogLoggingHandler.push_message: the calls put the event or
\* the value into the buffer of the client, nothing is sent and nothing raises
ThreadStatsPush(message, hp, failAt) ==
    IF message.cls = EventMessage
    THEN [exc |-> "none", calls |-> <<EventCall("stats.event", message, hp, TRUE)>>]
    ELSE IF message.cls = GaugeMessage
    THEN GaugeLoop("stats.gauge", message, hp, 0)
    ELSE UnknownMessage

\* self.push_message(msg), by the class of self
push_message(h, message, hp, failAt) ==
    CASE h.cls = StatsdDatadogLoggingHandler -> StatsdPush(message, hp, failAt)
      [] h.cls = ApiDatadogLoggingHandler -> ApiPush(message, hp, failAt)
      [] h.cls = ThreadStatsDatadogLoggingHandler -> ThreadStatsPush(message, hp, failAt)
      [] OTHER -> AbstractPush(message, hp, failAt)

(***************************************************************************)
(* AbstractDatadogLoggingHandler.emit                                      *)
(***************************************************************************)
\* the body of the try statement; Handler.format reads self.formatter first
TryBody(h, rec, hp, failAt) ==
    IF ~h.formatter.set
    THEN [exc |-> "AttributeError", record |-> rec, heap |-> hp, message |-> NoMessage,
          resolved |-> "none", patched |-> FALSE, calls |-> <<>>]
    ELSE LET f == format(h.formatter, rec, hp)
             pushed == IF f.message.cls \in MessageClasses
                       THEN push_message(h, f.message, f.heap, failAt)
                       ELSE [exc |-> "TypeError", calls |-> <<>>]
         IN  [exc |-> IF f.exc # "none" THEN f.exc ELSE pushed.exc,
              record |-> f.record, heap |-> f.heap, message |-> f.message,
              resolved |-> f.resolved, patched |-> f.patched,
              calls |-> IF f.exc # "none" THEN <<>> ELSE pushed.calls]

\* an except clause that names the exceptions the handler itself raises
ExceptClauseNamed(exc) == exc \in {"TypeError", "NotImplementedError", "AttributeError"}

\* except: with no class catches whatever was raised
ExceptClause(exc) == TRUE

NoLast ==
    [op |-> "none", cls |-> "none", config |-> NoFormatter,
     tags |-> Missing, mentions |-> Missing, resolved |-> "none", patched |-> FALSE,
     message |-> NoMessage, exc |-> "none"]

Emit(failAt) ==
    /\ handler.cls # "none"
    /\ record.exists
    /\ \E r \in {TryBody(handler, record, heap, failAt)} :
       LET caught == r.exc # "none" /\ ExceptClause(r.exc)
       IN  /\ \A a \in Addrs : Len(r.heap[a]) <= MaxListLen
           /\ record' = r.record
           /\ heap' = r.heap
           /\ calls' = r.calls
           /\ handled' = IF caught THEN 1 ELSE 0
           /\ escaped' = IF r.exc # "none" /\ ~caught THEN r.exc ELSE "none"
           /\ last' = [op |-> "emit", cls |-> handler.cls,
                       config |-> ConfigOf(handler.formatter, heap),
                       tags |-> Snapshot(record.tags, heap),
                       mentions |-> Snapshot(record.mentions, heap),
                       resolved |-> r.resolved, patched |-> r.patched,
                       message |-> [r.message EXCEPT !.tags = Snapshot(r.message.tags, r.heap)],
                       exc |-> r.exc]
    /\ UNCHANGED handler

(***************************************************************************)
(* Construction and collection of the handler, and the arrival of records. *)
(***************************************************************************)
\* AbstractDatadogLoggingHandler.__init__, which the statsd and api handlers
\* inherit; the lists given as tags and mentions are ["b"] and ["@o"]
AbstractInit(cls, withTags, withMentions, given_class, given_keyword) ==
    LET default_message_class == Pop(given_class, EventMessage)
        message_class_keyword == Pop(given_keyword, "datadog_todo")
        tags == IF withTags THEN Ref(StaticTagsAddr) ELSE None
        mentions == IF withMentions THEN Ref(StaticMentionsAddr) ELSE None
        hp == [heap EXCEPT ![StaticTagsAddr] = IF withTags THEN <<S_b>> ELSE <<>>,
                           ![StaticMentionsAddr] = IF withMentions THEN <<S_ops>> ELSE <<>>]
        fmt == BaseDatadogFormatter(default_message_class, message_class_keyword,
                                    tags, mentions)
    IN  [handler |-> [cls |-> cls, formatter |-> fmt, stats |-> "none",
                      kwargs |-> [default_message_class |-> given_class,
                                  message_class_keyword |-> given_keyword],
                      constructed |-> ConfigOf(fmt, hp)],
         heap |-> hp, calls |-> <<>>]

\* ThreadStatsDatadogLoggingHandler.__init__: the client is made and started,
\* the __init__ of the base classes is not called
ThreadStatsInit ==
    [handler |-> [cls |-> ThreadStatsDatadogLoggingHandler, formatter |-> NoFormatter,
                  stats |-> "started", kwargs |-> NoKwargs, constructed |-> NoFormatter],
     heap |-> heap, calls |-> <<[NoCall EXCEPT !.fn = "stats.start"]>>]

Construct(cls, withTags, withMentions, given_class, given_keyword) ==
    /\ handler.cls = "none"
    /\ LET c == IF cls = ThreadStatsDatadogLoggingHandler THEN ThreadStatsInit
                ELSE AbstractInit(cls, withTags, withMentions, given_class, given_keyword)
       IN  /\ handler' = c.handler
           /\ heap' = c.heap
           /\ calls' = c.calls
    /\ last' = [NoLast EXCEPT !.op = "construct", !.cls = cls]
    /\ handled' = 0
    /\ escaped' = "none"
    /\ UNCHANGED record

\* the handler is collected (ThreadStatsDatadogLoggingHandler.__del__ stops the
\* client); a list of the handler that the record refers to lives on as the
\* record's
Collect ==
    /\ handler.cls # "none"
    /\ LET keepTags == record.tags.k = "list" /\ record.tags.addr = StaticTagsAddr
           keepMentions ==
               record.mentions.k = "list" /\ record.mentions.addr = StaticMentionsAddr
       IN  /\ heap' = [heap EXCEPT
                          ![RecordTagsAddr] = IF keepTags THEN heap[StaticTagsAddr] ELSE @,
                          ![RecordMentionsAddr] =
                              IF keepMentions THEN heap[StaticMentionsAddr] ELSE @,
                          ![StaticTagsAddr] = <<>>,
                          ![StaticMentionsAddr] = <<>>]
           /\ record' = [record EXCEPT
                            !.tags = IF keepTags THEN Ref(RecordTagsAddr) ELSE @,
                            !.mentions = IF keepMentions THEN Ref(RecordMentionsAddr) ELSE @]
    /\ calls' = IF handler.stats = "started" THEN <<[NoCall EXCEPT !.fn = "stats.stop"]>>
                ELSE <<>>
    /\ handler' = NoHandler
    /\ last' = [NoLast EXCEPT !.op = "collect", !.cls = handler.cls]
    /\ handled' = 0
    /\ escaped' = "none"

\* a record reaches the handler, with the attributes its maker gave it; a list
\* among them is a list of its own
NewRecord(levelno, msg, args, tags, mentions, todo, kind) ==
    /\ ~record.exists
    /\ record' = [NoRecord EXCEPT
                     !.exists = TRUE, !.levelno = levelno, !.msg = msg, !.args = args,
                     !.tags = IF tags.k = "list" THEN Ref(RecordTagsAddr) ELSE tags,
                     !.mentions = IF mentions.k = "list" THEN Ref(RecordMentionsAddr)
                                  ELSE mentions,
                     !.datadog_todo = todo, !.kind = kind]
    /\ heap' = [heap EXCEPT ![RecordTagsAddr] = tags.items,
                            ![RecordMentionsAddr] = mentions.items]
    /\ last' = [NoLast EXCEPT !.op = "record"]
    /\ calls' = <<>>
    /\ handled' = 0
    /\ escaped' = "none"
    /\ UNCHANGED handler

\* the record is dropped, and the lists of its own with it
Discard ==
    /\ record.exists
    /\ record' = NoRecord
    /\ heap' = [heap EXCEPT ![RecordTagsAddr] = <<>>, ![RecordMentionsAddr] = <<>>]
    /\ last' = [NoLast EXCEPT !.op = "discard"]
    /\ calls' = <<>>
    /\ handled' = 0
    /\ escaped' = "none"
    /\ UNCHANGED handler

Init ==
    /\ handler = NoHandler
    /\ heap = [a \in Addrs |-> <<>>]
    /\ record = NoRecord
    /\ last = NoLast
    /\ calls = <<>>
    /\ handled = 0
    /\ escaped = "none"

(***************************************************************************)
(* The handlers that are constructed and the records that arrive.          *)
(***************************************************************************)
\* the five levels of the mapping, one between two of them, one above them all
Levels == {DEBUG, INFO, WARNING, ERROR, CRITICAL, 25, 60}
ListArgs == ArgsList(<<Num(5), Num(7), Num(9)>>)
TupleArgs == ArgsTuple(<<StrArg(S_x)>>)
SomeMentions == ListOf(<<S_m1, S_m2>>)

\* every backend, static tags and mentions or none, records with every shape
\* of tags, mentions and args, classified by datadog_todo
Handling ==
    [classes |-> HandlerClasses, withTags |-> BOOLEAN, withMentions |-> BOOLEAN,
     defaults |-> {Absent}, keywords |-> {Absent},
     levels |-> {ERROR}, templates |-> {S_metric, S_template},
     args |-> {ArgsNone, TupleArgs, ArgsList(<<>>), ListArgs},
     tags |-> {Missing, None, Str(S_a), ListOf(<<>>), ListOf(<<S_a>>)},
     mentions |-> {Missing, None, Str(S_m1), SomeMentions},
     todos |-> {Missing, Str(S_gauge)}, kinds |-> {Missing}]

\* every default class and selector attribute, records with every value of
\* the two selector attributes
Classifying ==
    [classes |-> {StatsdDatadogLoggingHandler, ApiDatadogLoggingHandler},
     withTags |-> {FALSE}, withMentions |-> {FALSE},
     defaults |-> {Absent} \cup MessageClasses, keywords |-> {Absent} \cup Keywords,
     levels |-> {INFO}, templates |-> {S_metric},
     args |-> {ArgsNone, ListArgs},
     tags |-> {Missing}, mentions |-> {Missing, None},
     todos |-> {Missing, None, Str(S_event), Str(S_gauge), Str(S_other)},
     kinds |-> {Missing, Str(S_event), Str(S_gauge)}]

\* records at every level
Levelling ==
    [classes |-> {StatsdDatadogLoggingHandler, ApiDatadogLoggingHandler},
     withTags |-> {FALSE}, withMentions |-> BOOLEAN,
     defaults |-> {Absent, GaugeMessage}, keywords |-> {Absent},
     levels |-> Levels, templates |-> {S_template},
     args |-> {ArgsNone, TupleArgs},
     tags |-> {None}, mentions |-> {None, SomeMentions},
     todos |-> {Missing, Str(S_event), Str(S_gauge)}, kinds |-> {Missing}]

NextIn(D) ==
    \/ \E cls \in D.classes, withTags \in D.withTags, withMentions \in D.withMentions,
          given_class \in D.defaults, given_keyword \in D.keywords :
          Construct(cls, withTags, withMentions, given_class, given_keyword)
    \/ \E levelno \in D.levels, msg \in D.templates, args \in D.args, tags \in D.tags,
          mentions \in D.mentions, todo \in D.todos, kind \in D.kinds :
          NewRecord(levelno, msg, args, tags, mentions, todo, kind)
    \/ \E failAt \in 0..MaxFailAt : Emit(failAt)
    \/ Discard
    \/ Collect

Next == NextIn(Handling)
NextClassify == NextIn(Classifying)
NextLevels == NextIn(Levelling)

Spec == Init /\ [][Next]_vars
SpecClassify == Init /\ [][NextClassify]_vars
SpecLevels == Init /\ [][NextLevels]_vars

(***************************************************************************)
(* Properties.  last describes the operation that led to the state: after  *)
(* an emit, the handler's configuration and the record's tags and mentions *)
(* as they were when emit was called (emit changes nothing else of the     *)
(* record), the class resolve_message chose, the message that was built    *)
(* and the exception raised inside the try statement; calls are the        *)
(* backend calls of that emit, handled the calls of handleError, escaped   *)
(* the exception that left emit.                                           *)
(***************************************************************************)
Emitted == last.op = "emit"

\* C1: emit lets no exception escape, whatever the backend and the record:
\* a failure of formatting, of building the message or of pushing it is
\* caught, handleError is called once for an emit that failed and not at all
\* for one that succeeded.
C1_EmitNeverRaises ==
    Emitted =>
        /\ escaped = "none"
        /\ handled = IF last.exc # "none" THEN 1 ELSE 0

\* an api push whose Event.create call raised, reported once
C1_Witness ==
    /\ Emitted
    /\ last.cls = ApiDatadogLoggingHandler
    /\ last.message.cls = EventMessage
    /\ last.exc = "DatadogError"
    /\ Len(calls) = 1
    /\ ~calls[1].ok
    /\ handled = 1
    /\ escaped = "none"

\* C2: the static configuration of a handler (tags, mentions, selector
\* attribute, default class) is worth after any sequence of emits what it was
\* worth when the handler was constructed.
C2_StaticConfigUnchanged ==
    handler.cls # "none" => ConfigOf(handler.formatter, heap) = handler.constructed

\* what the claim says a merge gives: the record's list followed by the static
\* list, the static list when the record has none, the scalar then the static
\* list when the record has a scalar
Merged(before, static) ==
    CASE before.k = "list" -> ListOf(before.items \o static.items)
      [] before.k = "str" -> ListOf(<<before.v>> \o static.items)
      [] OTHER -> ListOf(static.items)

\* C3: when static tags are configured, patch_record leaves in the record's
\* tags the record's tags followed by the static tags (a sequence), the static
\* tags (absent), the scalar followed by the static tags (a scalar); the same
\* holds of mentions.
C3_PatchRecordMerges ==
    (Emitted /\ last.config.set) =>
        /\ last.config.mentions.k = "list" =>
              Snapshot(record.mentions, heap) = Merged(last.mentions, last.config.mentions)
        /\ (last.config.tags.k = "list"
              /\ ~(last.config.mentions.k = "list" /\ last.mentions.k = "missing")) =>
              Snapshot(record.tags, heap) = Merged(last.tags, last.config.tags)

\* the text the claim gives an event: the rendered template, then a blank line
\* and the mentions joined by spaces when there are mentions
EventText(rendered, mentions) ==
    IF mentions.k = "list" THEN rendered \o S_blank \o Join(S_space, mentions.items)
    ELSE rendered

\* C4: a record without kind selector, on a handler constructed without
\* default class, gives an EventMessage whose text is the rendered template
\* when the record's mentions are absent, and the rendered template, a blank
\* line and the mentions joined by spaces when they are a sequence.
C4_EventText ==
    (/\ Emitted
     /\ last.patched
     /\ handler.kwargs = NoKwargs
     /\ record.datadog_todo.k = "missing"
     /\ getMessage(record).exc = "none"
     /\ Snapshot(record.mentions, heap).k \in {"missing", "none", "list"}) =>
        /\ last.message.cls = EventMessage
        /\ last.message.text =
              EventText(getMessage(record).text, Snapshot(record.mentions, heap))

\* C5: a gauge message has the record's msg as its metric name, the record's
\* args as its values when they are a non-empty sequence, [0] when they are
\* absent, empty or no sequence; the values are never empty.
C5_GaugeValues ==
    (Emitted /\ last.message.cls = GaugeMessage) =>
        /\ last.message.metric_name = record.msg
        /\ last.message.values =
              IF record.args.k \in {"list", "tuple"} /\ record.args.items # <<>>
              THEN record.args.items
              ELSE <<Num(0)>>
        /\ last.message.values # <<>>

\* the class the claim gives a record on the handler: by the value of the
\* selector attribute, which is datadog_todo unless the handler was given
\* another, and the default class, which is EventMessage unless the handler
\* was given another
ClassByClaim ==
    LET keyword == IF handler.kwargs.message_class_keyword = Absent THEN "datadog_todo"
                   ELSE handler.kwargs.message_class_keyword
        selector == record[keyword]
    IN  IF selector = Str(S_event) THEN EventMessage
        ELSE IF selector = Str(S_gauge) THEN GaugeMessage
        ELSE IF handler.kwargs.default_message_class = Absent THEN EventMessage
        ELSE handler.kwargs.default_message_class

C7_CallsOfPush ==
    (Emitted /\ last.exc = "none") =>
        LET m == last.message
        IN  /\ (last.cls = StatsdDatadogLoggingHandler /\ m.cls = GaugeMessage) =>
                  /\ Len(calls) = Len(m.values)
                  /\ \A i \in 1..Len(calls) :
                        calls[i] = [NoCall EXCEPT !.fn = "statsd.gauge",
                                                  !.metric = m.metric_name,
                                                  !.value = m.values[i],
                                                  !.tags = m.tags,
                                                  !.sample_rate = m.sample_rate]
            /\ (last.cls = ApiDatadogLoggingHandler /\ m.cls = GaugeMessage) =>
                  calls = <<[NoCall EXCEPT !.fn = "api.Metric.send",
                                            !.metric = m.metric_name,
                                            !.points = m.values,
                                            !.tags = m.tags,
                                            !.sample_rate = m.sample_rate]>>
            /\ (last.cls = StatsdDatadogLoggingHandler /\ m.cls = EventMessage) =>
                  calls = <<[NoCall EXCEPT !.fn = "statsd.event", !.data = m]>>
            /\ (last.cls = ApiDatadogLoggingHandler /\ m.cls = EventMessage) =>
                  calls = <<[NoCall EXCEPT !.fn = "api.Event.create", !.data = m]>>

\* three values pushed to statsd with tags: three calls
C7_Witness ==
    /\ Emitted
    /\ last.exc = "none"
    /\ last.cls = StatsdDatadogLoggingHandler
    /\ last.message.cls = GaugeMessage
    /\ last.message.tags = ListOf(<<S_a, S_b>>)
    /\ Len(last.message.values) = 3
    /\ Len(calls) = 3

\* a record the handler can make a message of: its template takes its args,
\* it has the attributes mentions and tags
WellFormed ==
    /\ getMessage(record).exc = "none"
    /\ last.mentions.k # "missing"
    /\ last.tags.k # "missing"

\* C8: an emit of a well-formed record on a ThreadStats handler, whose client
\* was started at construction, puts into the client one event for an event
\* record and one gauge per value for a gauge record, and reports no error.
C8_ThreadStatsEnqueues ==
    (/\ Emitted
     /\ last.cls = ThreadStatsDatadogLoggingHandler
     /\ handler.stats = "started"
     /\ WellFormed) =>
        /\ handled = 0
        /\ IF record.datadog_todo = Str(S_gauge)
           THEN /\ Len(calls) = Len(GaugeValues(record.args))
                /\ \A i \in 1..Len(calls) : calls[i].fn = "stats.gauge"
           ELSE /\ Len(calls) = 1
                /\ calls[1].fn = "stats.event"

\* the alert type the claim gives a level
AlertTypeByClaim(levelno) ==
    CASE levelno \in {10, 20} -> Str(S_info)
      [] levelno = 30 -> Str(S_warning)
      [] levelno \in {40, 50} -> Str(S_error)
      [] OTHER -> None

\* C9: the alert type of an event message is info for debug and info, warning
\* for warning, error for error and critical, and unset for any other level,
\* for which the message is built all the same.
C9_AlertType ==
    (Emitted /\ last.resolved = EventMessage) =>
        /\ last.message.cls = EventMessage
        /\ last.message.alert_type = AlertTypeByClaim(record.levelno)

\* an event at a level above critical went out with no alert type
C9_Witness ==
    /\ Emitted
    /\ record.levelno = 60
    /\ last.message.cls = EventMessage
    /\ last.message.alert_type = None
    /\ Len(calls) = 1
    /\ calls[1].ok
    /\ handled = 0

\* C10: when the k-th gauge call of a statsd push of n values raises, the
\* calls for the values before it were made, none is made for the values after
\* it, none is made twice, and handleError is called once.
C10_FailedGaugeCall ==
    (/\ Emitted
     /\ last.cls = StatsdDatadogLoggingHandler
     /\ last.message.cls = GaugeMessage
     /\ \E i \in 1..Len(calls) : ~calls[i].ok) =>
        LET k == Len(calls)
        IN  /\ k <= Len(last.message.values)
            /\ \A i \in 1..k :
                  /\ calls[i].fn = "statsd.gauge"
                  /\ calls[i].value = last.message.values[i]
                  /\ calls[i].ok = (i < k)
            /\ handled = 1
            /\ escaped = "none"

\* the second of three gauge calls raised
C10_Witness ==
    /\ Emitted
    /\ last.cls = StatsdDatadogLoggingHandler
    /\ last.message.cls = GaugeMessage
    /\ Len(last.message.values) = 3
    /\ Len(calls) = 2
    /\ calls[1].ok
    /\ ~calls[2].ok
    /\ handled = 1

====
